---- MODULE Spec2Model ----
(***************************************************************************)
(* A model of affine_invariant_features:                                   *)
(*   - AffineInvariantFeature::detectAndCompute, the parallel per-sample   *)
(*     detection and the index-ordered merge                               *)
(*     (include/affine_invariant_features/affine_invariant_feature.hpp);   *)
(*   - ResultMatcher::match and ResultMatcher::parallelMatch, the ratio    *)
(*     test, the homography verification and the multi-reference batch     *)
(*     (include/affine_invariant_features/result_matcher.hpp).             *)
(*                                                                         *)
(* External collaborators (the cv::Feature2D backend, knnMatch of the      *)
(* descriptor matcher, cv::findHomography, cv::parallel_for_) are modelled *)
(* by their contracts; what they leave open is a nondeterministic choice.  *)
(***************************************************************************)
EXTENDS Integers, Sequences, FiniteSets, TLC

(***************************************************************************)
(* Bounds of the model.                                                    *)
(***************************************************************************)
\* number of affine samples (the code's plan has 43; any number >= 2 shows
\* every ordering case)
NTasks == 3
\* largest number of keypoints the backend finds in one sample
MaxKp == 2
\* largest number of query descriptor rows beyond the four a homography needs
MaxExtraRows == 0
\* largest number of reference descriptor rows
MaxRef == 2
\* largest number of rows of a reference matched against itself
MaxSelfRows == 4
\* largest number of matchers handed to parallelMatch
MaxMatchers == 2

VARIABLES
    \* ---- detectAndCompute -------------------------------------------
    dpc,                  \* "idle" | "forked" (inside parallel_for_)
                          \*        | "returned"
    useProvidedKeypoints, \* the flag argument
    honoursFlag,          \* whether the backend honours the flag
    nDetect,              \* backend: number of keypoints found per sample
    taskpc,               \* per task: "todo" | "detected" | "done"
    keypoints_array,      \* per-task keypoint slot
    descriptors_array,    \* per-task descriptor slot
    keypoints,            \* the caller's keypoint vector (in/out)
    descriptors,          \* the caller's descriptor matrix (in/out), rows
    completionOrder,      \* history: the tasks in the order they completed
    executed,             \* history: per task, how often tasks[i]() was called
    \* ---- ResultMatcher::match ---------------------------------------
    mpc,                  \* "call" | "returned"
    refDescs,             \* reference_->descriptors, one number per row
    srcDescs,             \* source.descriptors, one number per row
    transform,            \* the caller's transform (in/out)
    matches,              \* the caller's match vector (in/out)
    all_matches,          \* history: what knnMatch returned
    unique_matches,       \* history: the ratio-surviving matches
    mask,                 \* history: the inlier mask read by the packing loop
    est,                  \* history: what cv::findHomography did
    prior,                \* history: the caller's outputs before the call
    \* ---- ResultMatcher::parallelMatch -------------------------------
    bpc,                  \* "idle" | "call" | "forked" | "returned"
                          \*        | "thrown"
    matchers,             \* the matcher list: Null or a matcher
    transforms,           \* the caller's transform vector (in/out)
    matches_array,        \* the caller's vector of match vectors (in/out)
    tpc,                  \* per task: "none" | "todo" | "running" | "done"
                          \*           | "failed" | "skipped"
    entered               \* history: per task, how often match was entered

dvars == <<dpc, useProvidedKeypoints, honoursFlag, nDetect, taskpc,
           keypoints_array, descriptors_array, keypoints, descriptors,
           completionOrder, executed>>

mvars == <<mpc, refDescs, srcDescs, transform, matches, all_matches,
           unique_matches, mask, est, prior>>

bvars == <<bpc, matchers, transforms, matches_array, tpc, entered>>

vars == <<dvars, mvars, bvars>>

(***************************************************************************)
(* General helpers.                                                        *)
(***************************************************************************)
RECURSIVE SumTo(_, _)
\* f[1] + ... + f[n]
SumTo(f, n) == IF n = 0 THEN 0 ELSE SumTo(f, n - 1) + f[n]

(***************************************************************************)
(* The feature backend (cv::Feature2D::detectAndCompute), by its contract. *)
(* A keypoint is named by the sample it was found in and its rank there;   *)
(* its descriptor row is a number that names the same pair.                *)
(***************************************************************************)
Tasks == 1..NTasks

KeyPoint(i, k, frame) == [sample |-> i, k |-> k, frame |-> frame]

DescRow(i, k) == 10 * i + k

\* keypoints and descriptor rows left in the caller's outputs by an
\* earlier, unrelated call
StaleKeyPoint == KeyPoint(0, 1, "source")
StaleRow == DescRow(0, 1)

\* What the backend writes for sample i, given the keypoint list passed in and
\* the flag: with the flag honoured it describes the keypoints passed in and
\* detects nothing, otherwise it detects nDetect[i] keypoints in the warped
\* image.  One descriptor row per keypoint.
BackendDetectAndCompute(i, inKeypoints, flag) ==
    IF flag /\ honoursFlag
    THEN [kps |-> inKeypoints,
          descs |-> [r \in 1..Len(inKeypoints) |->
                        DescRow(inKeypoints[r].sample, inKeypoints[r].k)]]
    ELSE [kps |-> [k \in 1..nDetect[i] |-> KeyPoint(i, k, "warped")],
          descs |-> [k \in 1..nDetect[i] |-> DescRow(i, k)]]

\* cv::invertAffineTransform + cv::transform over every keypoint: the
\* positions go back to the source frame, the order is kept
InvertKeypoints(kps) ==
    [k \in 1..Len(kps) |-> [kps[k] EXCEPT !.frame = "source"]]

(***************************************************************************)
(* The merge of detectAndCompute.                                          *)
(***************************************************************************)
RECURSIVE ExtendReversed(_, _)
\* a merge that inserts every slot at the front instead of the end
ExtendReversed(arr, n) ==
    IF n = 0 THEN <<>> ELSE arr[n] \o ExtendReversed(arr, n - 1)

RECURSIVE ExtendKeypoints(_, _)
\* keypoints.clear(); for i in 0..ntasks-1: keypoints.insert(end, slot i)
ExtendKeypoints(arr, n) ==
    IF n = 0 THEN <<>> ELSE ExtendKeypoints(arr, n - 1) \o arr[n]

\* the first task whose descriptor slot is not empty, 0 when there is none
FirstNonEmpty(darr) ==
    IF \E i \in Tasks : Len(darr[i]) > 0
    THEN CHOOSE i \in Tasks :
            /\ Len(darr[i]) > 0
            /\ \A j \in 1..(i - 1) : Len(darr[j]) = 0
    ELSE 0

\* a row of a freshly created matrix, not yet written
Uninit == 0 - 1

RECURSIVE CopyRows(_, _, _, _)
\* for i in 0..ntasks-1: slot i .copyTo(mat.rowRange(rows, rows + slot i .rows))
CopyRows(mat, darr, i, rows) ==
    IF i > NTasks THEN mat
    ELSE CopyRows([r \in 1..Len(mat) |->
                      IF r > rows /\ r <= rows + Len(darr[i])
                      THEN darr[i][r - rows] ELSE mat[r]],
                  darr, i + 1, rows + Len(darr[i]))

\* descriptors.create(keypoints.size(), cols, type) only when some slot is not
\* empty; then the copy loop; with every slot empty the caller's matrix is
\* left as it was
ExtendDescriptors(old, darr, nkeypoints) ==
    LET created == IF FirstNonEmpty(darr) # 0
                   THEN [r \in 1..nkeypoints |-> Uninit]
                   ELSE old
    IN  CopyRows(created, darr, 1, 0)

(***************************************************************************)
(* detectAndCompute as a state machine.                                    *)
(***************************************************************************)
DetectInit ==
    /\ dpc = "forked"
    /\ useProvidedKeypoints \in BOOLEAN
    /\ honoursFlag \in BOOLEAN
    /\ nDetect \in [Tasks -> 0..MaxKp]
    /\ taskpc = [i \in Tasks |-> "todo"]
    /\ keypoints_array = [i \in Tasks |-> <<>>]
    /\ descriptors_array = [i \in Tasks |-> <<>>]
    /\ keypoints \in {<<>>, <<StaleKeyPoint>>}
    /\ descriptors \in {<<>>, <<StaleRow>>}
    /\ completionOrder = <<>>
    /\ executed = [i \in Tasks |-> 0]

\* detectAndComputeImpl up to the backend call: the backend fills the task's
\* own slots (keypoints still in the warped frame)
TaskDetect(i) ==
    /\ dpc \in {"forked", "returned"}
    /\ taskpc[i] = "todo"
    /\ LET out == BackendDetectAndCompute(i, keypoints_array[i],
                                          useProvidedKeypoints)
       IN  /\ keypoints_array' = [keypoints_array EXCEPT ![i] = out.kps]
           /\ descriptors_array' = [descriptors_array EXCEPT ![i] = out.descs]
    /\ taskpc' = [taskpc EXCEPT ![i] = "detected"]
    /\ executed' = [executed EXCEPT ![i] = @ + 1]
    /\ UNCHANGED <<dpc, useProvidedKeypoints, honoursFlag, nDetect,
                   keypoints, descriptors, completionOrder, mvars, bvars>>

\* the rest of detectAndComputeImpl: the keypoints go back to the source frame
TaskInvert(i) ==
    /\ dpc \in {"forked", "returned"}
    /\ taskpc[i] = "detected"
    /\ keypoints_array' =
          [keypoints_array EXCEPT ![i] = InvertKeypoints(keypoints_array[i])]
    /\ taskpc' = [taskpc EXCEPT ![i] = "done"]
    /\ completionOrder' = Append(completionOrder, i)
    /\ UNCHANGED <<dpc, useProvidedKeypoints, honoursFlag, nDetect,
                   descriptors_array, keypoints, descriptors, executed,
                   mvars, bvars>>

\* a merge that does not wait for the tasks
MergeWithoutJoin ==
    /\ dpc = "forked"
    /\ keypoints' = ExtendKeypoints(keypoints_array, NTasks)
    /\ descriptors' = ExtendDescriptors(descriptors, descriptors_array,
                                        Len(keypoints'))
    /\ dpc' = "returned"
    /\ UNCHANGED <<useProvidedKeypoints, honoursFlag, nDetect, taskpc,
                   keypoints_array, descriptors_array, completionOrder,
                   executed, mvars, bvars>>

\* cv::parallel_for_ returns when every task is done; then the merge
Merge ==
    /\ dpc = "forked"
    /\ \A i \in Tasks : taskpc[i] = "done"
    /\ keypoints' = ExtendKeypoints(keypoints_array, NTasks)
    /\ descriptors' = ExtendDescriptors(descriptors, descriptors_array,
                                        Len(keypoints'))
    /\ dpc' = "returned"
    /\ UNCHANGED <<useProvidedKeypoints, honoursFlag, nDetect, taskpc,
                   keypoints_array, descriptors_array, completionOrder,
                   executed, mvars, bvars>>


(***************************************************************************)
(* Claims about detectAndCompute.                                          *)
(***************************************************************************)
\* what sample i contributes under flag value `flag`: the backend's output on
\* the task's (empty) slot, keypoints back in the source frame
SampleKeypoints(i, flag) ==
    InvertKeypoints(BackendDetectAndCompute(i, <<>>, flag).kps)

SampleRows(i, flag) == BackendDetectAndCompute(i, <<>>, flag).descs

\* the number of keypoints of the samples before sample i
Offset(i, flag) ==
    SumTo([j \in Tasks |-> Len(SampleKeypoints(j, flag))], i - 1)

Total(flag) == SumTo([j \in Tasks |-> Len(SampleKeypoints(j, flag))], NTasks)

\* C1: whatever the order in which the tasks ran and completed, the returned
\* keypoint k of sample i stands at position (keypoints of samples before i)
\* + k, the keypoint sequence holds nothing else, and the descriptor row of
\* that keypoint stands at the same position, the matrix holding nothing else
\* when there is any keypoint; the result is a function of the input alone.
MergeInIndexOrder ==
    dpc = "returned" =>
        /\ Len(keypoints) = Total(useProvidedKeypoints)
        /\ Total(useProvidedKeypoints) > 0 =>
              Len(descriptors) = Total(useProvidedKeypoints)
        /\ \A i \in Tasks :
              \A k \in 1..Len(SampleKeypoints(i, useProvidedKeypoints)) :
                 LET p == Offset(i, useProvidedKeypoints) + k
                 IN  /\ keypoints[p] =
                           SampleKeypoints(i, useProvidedKeypoints)[k]
                     /\ p <= Len(descriptors)
                     /\ descriptors[p] =
                           SampleRows(i, useProvidedKeypoints)[k]

\* C1 witness: a call has returned at least two keypoints from different
\* samples although a later sample's task completed before an earlier one's.
MergeAfterOutOfOrderCompletion ==
    /\ dpc = "returned"
    /\ \E a, b \in 1..Len(completionOrder) :
          a < b /\ completionOrder[a] > completionOrder[b]
    /\ \E i, j \in Tasks :
          /\ i < j
          /\ Len(keypoints_array[i]) > 0
          /\ Len(keypoints_array[j]) > 1

\* C2: after every call the number of returned keypoints equals the number
\* of rows of the returned descriptor matrix.
KeypointCountEqualsRowCount ==
    dpc = "returned" => Len(keypoints) = Len(descriptors)

\* C8: the call returns what it returns with useProvidedKeypoints = false:
\* the same keypoints and, where there are any, the same descriptor rows.
FlagHasNoEffect ==
    dpc = "returned" =>
        /\ Len(keypoints) = Total(FALSE)
        /\ \A i \in Tasks :
              \A k \in 1..Len(SampleKeypoints(i, FALSE)) :
                 /\ keypoints[Offset(i, FALSE) + k] =
                       SampleKeypoints(i, FALSE)[k]
                 /\ Offset(i, FALSE) + k <= Len(descriptors)
                 /\ descriptors[Offset(i, FALSE) + k] = SampleRows(i, FALSE)[k]

(***************************************************************************)
(* ResultMatcher::match.  A descriptor row is one number and the distance  *)
(* of two rows the absolute difference; rows and indices count from 1.     *)
(***************************************************************************)
\* cv::findHomography requires 4 or more point pairs
MinPairs == 4
\* the ratio of the uniqueness test, 0.75 = RatioNum / RatioDen
RatioNum == 3
RatioDen == 4

\* the values of reference rows and of query rows: with references {0, 7} a
\* query row 3 has distances 3 and 4, exactly on the 0.75 boundary; with
\* references {0, 0} it has distances 3 and 3 and fails the test
RefVals == {0, 7}

DescVals == {0, 3, 7}

Eye == "identity"
Fitted == "fitted"
StaleTransform == "stale"

\* a match whose indices are one past the rows they name
DMatchPastRow(q, t, d) ==
    [queryIdx |-> q + 1, trainIdx |-> t + 1, distance |-> d]

\* cv::DMatch; rows are numbered from 1
DMatch(q, t, d) == [queryIdx |-> q, trainIdx |-> t, distance |-> d]

\* Results invariant: a Results holds as many keypoints as descriptor rows
NumKeypoints(descs) == Len(descs)

StaleMatch == DMatch(1, 1, 99)

\* a distance that forgets the absolute value
SignedDist(a, b) == a - b

\* the distance of two descriptor rows
Dist(a, b) == IF a >= b THEN a - b ELSE b - a

\* the reference row nearest to q among those not in excl (the lowest index
\* among equally near rows)
Nearest(q, ref, excl) ==
    CHOOSE i \in (DOMAIN ref) \ excl :
        \A j \in (DOMAIN ref) \ excl :
            \/ Dist(q, ref[i]) < Dist(q, ref[j])
            \/ Dist(q, ref[i]) = Dist(q, ref[j]) /\ i <= j

\* matcher_->knnMatch(source.descriptors, all_matches, 2): per query row its
\* two nearest reference rows, nearest first; one when the reference has one
\* row; nothing at all when the query or the reference has no row
KnnMatch(ref, src) ==
    IF Len(ref) = 0 \/ Len(src) = 0 THEN <<>>
    ELSE [q \in 1..Len(src) |->
            LET i1 == Nearest(src[q], ref, {})
            IN  IF Len(ref) = 1
                THEN <<DMatch(q, i1, Dist(src[q], ref[i1]))>>
                ELSE LET i2 == Nearest(src[q], ref, {i1})
                     IN  <<DMatch(q, i1, Dist(src[q], ref[i1])),
                           DMatch(q, i2, Dist(src[q], ref[i2]))>>]

\* a ratio test that also rejects the boundary
RatioRejectsBoundary(d1, d2) == RatioDen * d1 >= RatioNum * d2

\* (*m)[0].distance > 0.75 * (*m)[1].distance
RatioRejects(d1, d2) == RatioDen * d1 > RatioNum * d2

RECURSIVE RatioFilter(_, _)
\* the loop over all_matches from row m on
RatioFilter(all, m) ==
    IF m > Len(all) THEN <<>>
    ELSE IF Len(all[m]) < 2 THEN RatioFilter(all, m + 1)
    ELSE IF RatioRejects(all[m][1].distance, all[m][2].distance)
         THEN RatioFilter(all, m + 1)
    ELSE <<all[m][1]>> \o RatioFilter(all, m + 1)

\* a match that forgets matches.clear()
KeepMatches(old) == old

\* matches.clear()
ClearMatches(old) == <<>>

Masks(n) == [1..n -> {0, 1}]

\* cv::findHomography was not called
NotCalled == [kind |-> "none", mask |-> <<>>]

\* What cv::findHomography can do with n >= 4 point pairs:
\*   "model": it returns a 3x3 matrix and an inlier mask of n entries;
\*   "raise": it throws cv::Exception, the mask being whatever it had
\*            written by then (nothing, or n entries);
\*   "empty": it returns an empty matrix, the mask unwritten or all zero;
\*            the conversion of the empty matrix to cv::Matx33f inside the
\*            try block then throws cv::Exception.
EstimatorOutcomes(n) ==
    [kind : {"model"}, mask : Masks(n)]
    \cup [kind : {"raise"}, mask : Masks(n) \cup {<<>>}]
    \cup [kind : {"empty"}, mask : {<<>>, [i \in 1..n |-> 0]}]

\* mask.resize(n, 0): the entries already there are kept, new ones are 0
ResizeMask(m, n) == [i \in 1..n |-> IF i <= Len(m) THEN m[i] ELSE 0]

\* try { transform = cv::findHomography(..., mask); }
\* catch (const cv::Exception &) { transform = eye; mask.resize(n, 0); }
FindHomographyHandled(oc, n) ==
    IF oc.kind = "model"
    THEN [transform |-> Fitted, mask |-> oc.mask]
    ELSE [transform |-> Eye, mask |-> ResizeMask(oc.mask, n)]

RECURSIVE PackAll(_, _, _)
\* a packing loop that ignores the mask
PackAll(uniq, msk, i) ==
    IF i > Len(uniq) THEN <<>> ELSE <<uniq[i]>> \o PackAll(uniq, msk, i + 1)

RECURSIVE PackMatches(_, _, _)
\* for i in 0..unique_matches.size()-1: if (mask[i] != 0) push_back
PackMatches(uniq, msk, i) ==
    IF i > Len(uniq) THEN <<>>
    ELSE IF msk[i] = 0 THEN PackMatches(uniq, msk, i + 1)
    ELSE <<uniq[i]>> \o PackMatches(uniq, msk, i + 1)

\* the ratio-surviving matches of a query against a reference
UniqueMatches(ref, src) == RatioFilter(KnnMatch(ref, src), 1)

\* The rest of match(source, transform, matches) once the ratio test has left
\* uniq, given what the estimator does (oc, read only when it is called).
MatchResult(uniq, oldMatches, oc) ==
    IF Len(uniq) < MinPairs
    THEN [transform |-> Eye, matches |-> ClearMatches(oldMatches),
          unique |-> uniq, mask |-> <<>>, est |-> NotCalled]
    ELSE LET h == FindHomographyHandled(oc, Len(uniq))
         IN  [transform |-> h.transform,
              matches |-> ClearMatches(oldMatches)
                              \o PackMatches(uniq, h.mask, 1),
              unique |-> uniq, mask |-> h.mask, est |-> oc]

\* the estimator outcomes that matter for a call: one placeholder when the
\* estimator is not called
OutcomesFor(n) ==
    IF n < MinPairs THEN {NotCalled}
    ELSE EstimatorOutcomes(n)

SeqsUpTo(S, n) == UNION {[1..k -> S] : k \in 0..n}

DetectIdle ==
    /\ dpc = "idle"
    /\ useProvidedKeypoints = FALSE
    /\ honoursFlag = FALSE
    /\ nDetect = [i \in Tasks |-> 0]
    /\ taskpc = [i \in Tasks |-> "done"]
    /\ keypoints_array = [i \in Tasks |-> <<>>]
    /\ descriptors_array = [i \in Tasks |-> <<>>]
    /\ keypoints = <<>>
    /\ descriptors = <<>>
    /\ completionOrder = <<>>
    /\ executed = [i \in Tasks |-> 0]

MatchIdle ==
    /\ mpc = "returned"
    /\ refDescs = <<>>
    /\ srcDescs = <<>>
    /\ transform = Eye
    /\ matches = <<>>
    /\ all_matches = <<>>
    /\ unique_matches = <<>>
    /\ mask = <<>>
    /\ est = NotCalled
    /\ prior = [transform |-> Eye, matches |-> <<>>]

\* the caller's outputs are fresh, or hold what an earlier call left in them
PriorOutputs ==
    {[transform |-> Eye, matches |-> <<>>],
     [transform |-> StaleTransform, matches |-> <<StaleMatch>>]}

MatchInit ==
    /\ mpc = "call"
    /\ refDescs \in SeqsUpTo(RefVals, MaxRef)
    /\ srcDescs \in SeqsUpTo(DescVals, MinPairs + MaxExtraRows)
    /\ prior \in PriorOutputs
    /\ transform = prior.transform
    /\ matches = prior.matches
    /\ all_matches = <<>>
    /\ unique_matches = <<>>
    /\ mask = <<>>
    /\ est = NotCalled

\* the values of the rows of a reference matched against itself
SelfVals == {0, 3, 7, 8, 12}

\* a reference with pairwise distinct rows is matched against itself
SelfMatchInit ==
    /\ mpc = "call"
    /\ refDescs \in {r \in SeqsUpTo(SelfVals, MaxSelfRows) :
                        /\ Len(r) >= 1
                        /\ \A i, j \in DOMAIN r : i # j => r[i] # r[j]}
    /\ srcDescs = refDescs
    /\ prior \in PriorOutputs
    /\ transform = prior.transform
    /\ matches = prior.matches
    /\ all_matches = <<>>
    /\ unique_matches = <<>>
    /\ mask = <<>>
    /\ est = NotCalled

Match ==
    /\ mpc = "call"
    /\ \E all \in {KnnMatch(refDescs, srcDescs)} :
       \E uniq \in {RatioFilter(all, 1)} :
       \E oc \in OutcomesFor(Len(uniq)) :
       \E r \in {MatchResult(uniq, matches, oc)} :
              /\ all_matches' = all
              /\ transform' = r.transform
              /\ matches' = r.matches
              /\ unique_matches' = r.unique
              /\ mask' = r.mask
              /\ est' = r.est
    /\ mpc' = "returned"
    /\ UNCHANGED <<refDescs, srcDescs, prior, dvars, bvars>>

(***************************************************************************)
(* ResultMatcher::parallelMatch.                                           *)
(***************************************************************************)
\* a null cv::Ptr< const ResultMatcher >
Null == [ref |-> <<>>, dtype |-> "null", oc |-> NotCalled]

\* the element types of descriptor matrices (CV_32F for L2 backends, CV_8U
\* for Hamming backends)
DTypes == {"f32", "u8"}

\* the query of the batch: against the reference {0, 7} its four rows all
\* survive the ratio test
BatchSource == [descs |-> <<0, 3, 7, 0>>, dtype |-> "f32"]

BatchRefs == {<<0, 7>>, <<0, 0>>}

\* knnMatch on a trained index throws cv::Exception when the query's element
\* type is not the index's; it returns at once when either side has no row
KnnThrows(ref, refType, src, srcType) ==
    Len(ref) > 0 /\ Len(src) > 0 /\ refType # srcType

\* what the estimator does for a matcher of the batch when it is called
BatchOutcomes ==
    {[kind |-> "model", mask |-> <<1, 1, 1, 1>>],
     [kind |-> "model", mask |-> <<1, 0, 1, 1>>],
     [kind |-> "raise", mask |-> <<>>],
     [kind |-> "raise", mask |-> <<1, 1, 0, 1>>]}

\* whether the estimator is called when matcher m matches the batch's query
CallsEstimator(ref, dtype) ==
    /\ ~KnnThrows(ref, dtype, BatchSource.descs, BatchSource.dtype)
    /\ Len(UniqueMatches(ref, BatchSource.descs)) >= MinPairs

\* the matchers of the batch: a reference, its element type and what the
\* estimator does when this matcher calls it
MatcherChoices ==
    {m \in [ref : BatchRefs, dtype : DTypes,
            oc : BatchOutcomes \cup {NotCalled}] :
        (m.oc = NotCalled) <=> ~CallsEstimator(m.ref, m.dtype)}

\* std::vector::resize(n, fill): the first n entries already there are kept
Resize(v, n, fill) == [i \in 1..n |-> IF i <= Len(v) THEN v[i] ELSE fill]

\* ParallelTasks::operator(): a task is run when it is not empty; the task of
\* a null matcher is left empty
ParallelTasksRuns(i) == matchers[i] # Null

BatchIdle ==
    /\ bpc = "idle"
    /\ matchers = <<>>
    /\ transforms = <<>>
    /\ matches_array = <<>>
    /\ tpc = <<>>
    /\ entered = <<>>

\* the caller's vectors are empty, or hold what an earlier call left in them
BatchInit ==
    /\ bpc = "call"
    /\ matchers \in SeqsUpTo(MatcherChoices \cup {Null}, MaxMatchers)
    /\ \E n \in {0, Len(matchers), Len(matchers) + 1} :
          /\ transforms = [i \in 1..n |-> StaleTransform]
          /\ matches_array = [i \in 1..n |-> <<StaleMatch>>]
    /\ tpc = <<>>
    /\ entered = [i \in 1..Len(matchers) |-> 0]

\* parallelMatch up to cv::parallel_for_
ParallelMatchBegin ==
    /\ bpc = "call"
    /\ transforms' = Resize(transforms, Len(matchers), Eye)
    /\ matches_array' = Resize(matches_array, Len(matchers), <<>>)
    /\ tpc' = [i \in 1..Len(matchers) |->
                  IF ParallelTasksRuns(i) THEN "todo" ELSE "none"]
    /\ bpc' = "forked"
    /\ UNCHANGED <<matchers, entered, dvars, mvars>>

\* task i enters match: the outputs are reset, then knnMatch
BTaskBegin(i) ==
    /\ bpc \in {"forked", "returned", "thrown"}
    /\ i \in DOMAIN tpc
    /\ tpc[i] = "todo"
    /\ transforms' = [transforms EXCEPT ![i] = Eye]
    /\ matches_array' =
          [matches_array EXCEPT ![i] = ClearMatches(matches_array[i])]
    /\ tpc' = [tpc EXCEPT ![i] =
                  IF KnnThrows(matchers[i].ref, matchers[i].dtype,
                               BatchSource.descs, BatchSource.dtype)
                  THEN "failed" ELSE "running"]
    /\ entered' = [entered EXCEPT ![i] = @ + 1]
    /\ UNCHANGED <<bpc, matchers, dvars, mvars>>

\* task i runs the rest of match and returns
BTaskEnd(i) ==
    /\ bpc \in {"forked", "returned", "thrown"}
    /\ i \in DOMAIN tpc
    /\ tpc[i] = "running"
    /\ \E r \in {MatchResult(UniqueMatches(matchers[i].ref, BatchSource.descs),
                             matches_array[i], matchers[i].oc)} :
          /\ transforms' = [transforms EXCEPT ![i] = r.transform]
          /\ matches_array' = [matches_array EXCEPT ![i] = r.matches]
    /\ tpc' = [tpc EXCEPT ![i] = "done"]
    /\ UNCHANGED <<bpc, matchers, entered, dvars, mvars>>

\* once a task has thrown, cv::parallel_for_ may leave tasks not yet started
\* unrun (those after it in its stripe, at least)
BTaskSkip(i) ==
    /\ bpc = "forked"
    /\ i \in DOMAIN tpc
    /\ tpc[i] = "todo"
    /\ \E j \in DOMAIN tpc : tpc[j] = "failed"
    /\ tpc' = [tpc EXCEPT ![i] = "skipped"]
    /\ UNCHANGED <<bpc, matchers, transforms, matches_array, entered,
                   dvars, mvars>>

\* cv::parallel_for_ ends: it returns, or the exception of a task leaves
\* parallelMatch
Join ==
    /\ bpc = "forked"
    /\ \A i \in DOMAIN tpc : tpc[i] \in {"none", "done", "failed", "skipped"}
    /\ bpc' = IF \E i \in DOMAIN tpc : tpc[i] = "failed"
              THEN "thrown" ELSE "returned"
    /\ UNCHANGED <<matchers, transforms, matches_array, tpc, entered,
                   dvars, mvars>>

(***************************************************************************)
(* Claims about match.                                                     *)
(***************************************************************************)
\* the neighbours knnMatch found for query row q (none when it found nothing)
Neighbours(q) == IF q \in DOMAIN all_matches THEN all_matches[q] ELSE <<>>

\* query row q has two neighbours exactly on the boundary d1 = 0.75 * d2
OnBoundary(q) ==
    /\ Len(Neighbours(q)) = 2
    /\ RatioDen * Neighbours(q)[1].distance
          = RatioNum * Neighbours(q)[2].distance

Survives(q) == \E k \in DOMAIN unique_matches : unique_matches[k].queryIdx = q

\* C4 (as amended): a query row whose distances lie exactly on the boundary
\* d1 = 0.75 * d2 is kept in the ratio-surviving set.
BoundaryRowIsKept ==
    mpc = "returned" => \A q \in DOMAIN srcDescs : OnBoundary(q) => Survives(q)

\* C4 witness: a call has handled a row with distances 3 and 4.
BoundaryRowSeen ==
    /\ mpc = "returned"
    /\ \E q \in DOMAIN srcDescs :
          /\ OnBoundary(q)
          /\ Neighbours(q)[1].distance = 3
          /\ Neighbours(q)[2].distance = 4
          /\ Survives(q)

\* C4 (original): a query row exactly on the boundary is excluded from the
\* ratio-surviving set (stated for rows with a nearest distance above 0; a
\* row at distance 0 of two equal reference rows is on the boundary too).
BoundaryRowIsExcluded ==
    mpc = "returned" =>
        \A q \in DOMAIN srcDescs :
           (OnBoundary(q) /\ Neighbours(q)[1].distance > 0) => ~Survives(q)

\* C5: when fewer than 4 query rows survive the ratio test, match returns the
\* identity transform and no match, and the estimator is not called, whatever
\* the caller's outputs held.
FewSurvivorsGiveIdentity ==
    (mpc = "returned" /\ Len(unique_matches) < MinPairs) =>
        /\ transform = Eye
        /\ matches = <<>>
        /\ est = NotCalled

\* C5 witness: a call with three survivors has returned over stale outputs.
FewSurvivorsOverStaleOutputs ==
    /\ mpc = "returned"
    /\ Len(unique_matches) = MinPairs - 1
    /\ prior.transform = StaleTransform
    /\ prior.matches # <<>>

\* C6: when the estimator fails (by raising or by returning no model,
\* whatever it wrote to the mask), match returns the identity transform and
\* no match.
EstimatorFailureGivesIdentity ==
    (mpc = "returned" /\ est.kind \in {"raise", "empty"}) =>
        /\ transform = Eye
        /\ matches = <<>>

\* the estimator marked ratio-surviving match i as an inlier
MarkedInlier(i) == i \in DOMAIN est.mask /\ est.mask[i] # 0

IndicesInRange ==
    mpc = "returned" =>
       /\ \A k \in DOMAIN unique_matches :
             /\ unique_matches[k].queryIdx \in 1..NumKeypoints(srcDescs)
             /\ unique_matches[k].trainIdx \in 1..NumKeypoints(refDescs)
       /\ Len(unique_matches) >= MinPairs =>
             Len(mask) >= Len(unique_matches)

\* C12 witness: the estimator raised before it wrote any mask entry, the
\* packing loop ran over a resized mask, and a surviving match names the last
\* keypoint of the query and the last keypoint of the reference.
PackedAfterFailureAtLastIndices ==
    /\ mpc = "returned"
    /\ est.kind = "raise"
    /\ est.mask = <<>>
    /\ Len(unique_matches) >= MinPairs
    /\ Len(mask) = Len(unique_matches)
    /\ \E k \in DOMAIN unique_matches :
          /\ unique_matches[k].queryIdx = NumKeypoints(srcDescs)
          /\ unique_matches[k].trainIdx = NumKeypoints(refDescs)

MatchAlone(m) ==
    MatchResult(UniqueMatches(m.ref, BatchSource.descs), <<>>, m.oc)

\* C3: after parallelMatch returns, the slot of every null matcher holds the
\* identity transform and no match, and the slot of every other matcher
\* holds what its match returns, whatever the vectors held before the call.
NullSlotsHoldDefaults ==
    bpc = "returned" =>
        /\ Len(transforms) = Len(matchers)
        /\ Len(matches_array) = Len(matchers)
        /\ \A i \in DOMAIN matchers :
              IF matchers[i] = Null
              THEN transforms[i] = Eye /\ matches_array[i] = <<>>
              ELSE /\ transforms[i] = MatchAlone(matchers[i]).transform
                   /\ matches_array[i] = MatchAlone(matchers[i]).matches

\* matcher m's match fails at some step: knnMatch throws, or the estimator
\* finds no model
MatchFails(m) ==
    \/ KnnThrows(m.ref, m.dtype, BatchSource.descs, BatchSource.dtype)
    \/ m.oc.kind \in {"raise", "empty"}

\* C7: a match task that fails never aborts the batch: parallelMatch returns,
\* the failing slot holds the identity transform and no match, and every
\* other matcher's slot holds what its match returns when run alone.
FailedTaskNeverAbortsBatch ==
    /\ bpc # "thrown"
    /\ bpc = "returned" =>
          \A i \in DOMAIN matchers :
             matchers[i] # Null =>
                IF MatchFails(matchers[i])
                THEN transforms[i] = Eye /\ matches_array[i] = <<>>
                ELSE /\ transforms[i] = MatchAlone(matchers[i]).transform
                     /\ matches_array[i] = MatchAlone(matchers[i]).matches

(***************************************************************************)
(* Claims about the join of the parallel calls.                            *)
(***************************************************************************)
\* C11: detectAndCompute merges and returns, and parallelMatch returns, only
\* after every task of the call has completed: once the call has returned no
\* task is still to run or running, every non-null task has been executed
\* exactly once and every null task not at all; no task is ever executed
\* twice.
JoinBeforeReturn ==
    /\ \A i \in Tasks : executed[i] <= 1
    /\ dpc = "returned" =>
          \A i \in Tasks : taskpc[i] = "done" /\ executed[i] = 1
    /\ \A i \in DOMAIN entered : entered[i] <= 1
    /\ bpc = "returned" =>
          /\ DOMAIN tpc = DOMAIN matchers
          /\ \A i \in DOMAIN matchers :
                IF ParallelTasksRuns(i)
                THEN tpc[i] = "done" /\ entered[i] = 1
                ELSE tpc[i] = "none" /\ entered[i] = 0

\* C11 witness: a parallelMatch call over a null and a non-null matcher has
\* returned after the non-null matcher's task ran.
ReturnedAfterJoin ==
    /\ bpc = "returned"
    /\ \E i, j \in DOMAIN matchers :
          /\ matchers[i] = Null
          /\ matchers[j] # Null
          /\ entered[j] = 1
          /\ tpc[j] = "done"

(***************************************************************************)
(* The specifications.                                                     *)
(***************************************************************************)
\* detectAndCompute
Init == DetectInit /\ MatchIdle /\ BatchIdle

Next ==
    \/ \E i \in Tasks : TaskDetect(i)
    \/ \E i \in Tasks : TaskInvert(i)
    \/ Merge

Spec == Init /\ [][Next]_vars

\* match
InitMatch == DetectIdle /\ MatchInit /\ BatchIdle

NextMatch == Match

SpecMatch == InitMatch /\ [][NextMatch]_vars

\* match of a reference against itself
InitSelf == DetectIdle /\ SelfMatchInit /\ BatchIdle

SpecSelf == InitSelf /\ [][NextMatch]_vars

\* parallelMatch
InitBatch == DetectIdle /\ MatchIdle /\ BatchInit

NextBatch ==
    \/ ParallelMatchBegin
    \/ \E i \in 1..MaxMatchers : BTaskBegin(i)
    \/ \E i \in 1..MaxMatchers : BTaskEnd(i)
    \/ \E i \in 1..MaxMatchers : BTaskSkip(i)
    \/ Join

SpecBatch == InitBatch /\ [][NextBatch]_vars

\* one call of detectAndCompute or one call of parallelMatch
InitCalls ==
    \/ DetectInit /\ MatchIdle /\ BatchIdle
    \/ DetectIdle /\ MatchIdle /\ BatchInit

NextCalls ==
    \/ \E i \in Tasks : TaskDetect(i)
    \/ \E i \in Tasks : TaskInvert(i)
    \/ Merge
    \/ ParallelMatchBegin
    \/ \E i \in 1..MaxMatchers : BTaskBegin(i)
    \/ \E i \in 1..MaxMatchers : BTaskEnd(i)
    \/ \E i \in 1..MaxMatchers : BTaskSkip(i)
    \/ Join

SpecCalls == InitCalls /\ [][NextCalls]_vars

====
